---- MODULE Spec2Model ----
(***************************************************************************)
(* dirsize: list the immediate, non-hidden subdirectories of a target      *)
(* directory, sum the sizes of the regular files below each one, print a   *)
(* report line per subdirectory and append progress and errors to a log.   *)
(*                                                                         *)
(* Three drivers are modelled, told apart by `variant`:                    *)
(*   "optional"  src/unnamed/part_000  arguments, levelled log,            *)
(*               calculate_directory_size returns std::optional            *)
(*   "levels"    src/unnamed/part_001 (second program)  arguments,         *)
(*               levelled log, the partial sum is returned on error        *)
(*   "cwd"       src/main.cc  no arguments, current directory, fixed log   *)
(*               name, unlevelled log, partial sum on error                *)
(* and the two human_readable_size policies (fixed two decimals; the       *)
(* truncating integer one of the first program of src/unnamed/part_001).   *)
(*                                                                         *)
(* Text is a sequence of one-character strings.  The file system is the    *)
(* environment: every directory iterator step is an action whose entry,    *)
(* end or error is chosen by \E.  Timestamps are left out of log records.  *)
(***************************************************************************)
EXTENDS Integers, Sequences, FiniteSets, Bags, TLC

VARIABLES
    variant,    \* which program runs
    argc,       \* argument count of the current process (argv[0] included)
    pc,         \* position of main
    exitCode,   \* exit status once pc = "exited", -1 before
    fatal,      \* which fatal precondition ended the run, "none" otherwise
    logFile,    \* content of the log file on disk (survives the process)
    logExists,  \* the log file exists on disk
    logStart,   \* Len(logFile) when the current process started
    out,        \* standard output of the current process, a sequence of lines
    err,        \* standard error of the current process
    listed,     \* entries the top-level directory_iterator has yielded
    listFailed, \* the top-level iteration threw
    cur,        \* name of the subdirectory being sized, <<>> when none
    size,       \* calculate_directory_size's accumulator
    seen,       \* bag of the entries the recursive iterator has yielded
    depth,      \* recursion depth of the recursive iterator
    walks,      \* results of the calculate_directory_size calls of this run
    runs,       \* processes started so far
    yielded,    \* directory entries yielded so far (all iterators, all runs)
    fmtVariant, \* formatter under test: "fixed" or "trunc"
    fmtIn,      \* formatter input
    fmtOut      \* formatter output, <<>> before the call

vars == <<variant, argc, pc, exitCode, fatal, logFile, logExists, logStart,
          out, err, listed, listFailed, cur, size, seen, depth, walks, runs,
          yielded, fmtVariant, fmtIn, fmtOut>>

driverVars == <<variant, argc, pc, exitCode, fatal, logFile, logExists,
                logStart, out, err, listed, listFailed, cur, size, seen,
                depth, walks, runs, yielded>>

fmtVars == <<fmtVariant, fmtIn, fmtOut>>

----------------------------------------------------------------------------
(* Bounds of the model *)

MaxEntries == 5     \* directory entries yielded to one process
MaxRuns == 2        \* successive processes on one log file
MaxRunEntries == 2  \* directory entries yielded in total to successive processes
FmtSpread == 3      \* formatter inputs taken on each side of a sample point

----------------------------------------------------------------------------
(* Text *)

DigitChar == <<"0", "1", "2", "3", "4", "5", "6", "7", "8", "9">>

RECURSIVE Digits(_)
\* operator<<(uintmax_t) / std::to_string: decimal digits, no separators
Digits(n) ==
    IF n < 10 THEN <<DigitChar[n + 1]>>
    ELSE Digits(n \div 10) \o <<DigitChar[(n % 10) + 1]>>

Rep(c, k) == [i \in 1..k |-> c]

Max(a, b) == IF a >= b THEN a ELSE b

----------------------------------------------------------------------------
(* human_readable_size *)

KB == 1024
MB == KB * 1024
GB == MB * 1024

\* The value printed by  oss << std::fixed << std::setprecision(2)
\*                           << static_cast<double>(size) / unit
\* in hundredths of the unit.  For size < 2^53 the conversion and the division
\* by a power of two are exact, and the stream prints the exact quotient
\* rounded to the nearest hundredth, ties to even.  100 * size does not fit
\* TLC's 32-bit integers, so the quotient is computed on size split at KB:
\* 100 * (size % unit) = f * unit + rem.
Hundredths(sz, unit) ==
    LET q   == sz \div unit
        r   == sz % unit
        hi  == r \div KB
        lo  == r % KB
        us  == unit \div KB
        t   == 100 * hi + (100 * lo) \div KB
        sub == (100 * lo) % KB
        f   == t \div us
        rem == (t % us) * KB + sub
        up  == \/ 2 * rem > unit
               \/ 2 * rem = unit /\ f % 2 = 1
    IN  100 * q + f + (IF up THEN 1 ELSE 0)

\* std::fixed, std::setprecision(2): integer part, point, two digits
Fixed2(sz, unit) ==
    LET h == Hundredths(sz, unit)
    IN  Digits(h \div 100) \o <<".">> \o
        <<DigitChar[(h % 100) \div 10 + 1], DigitChar[(h % 10) + 1]>>

\* faulty variant: the thresholds taken exclusively (> for >=)
human_readable_size_gt(sz) ==
    IF sz > GB THEN Fixed2(sz, GB) \o <<" ", "G", "B">>
    ELSE IF sz > MB THEN Fixed2(sz, MB) \o <<" ", "M", "B">>
    ELSE IF sz > KB THEN Fixed2(sz, KB) \o <<" ", "K", "B">>
    ELSE Digits(sz) \o <<" ", "b", "y", "t", "e", "s">>

\* part_000, main.cc and the second program of part_001
human_readable_size(sz) ==
    IF sz >= GB THEN Fixed2(sz, GB) \o <<" ", "G", "B">>
    ELSE IF sz >= MB THEN Fixed2(sz, MB) \o <<" ", "M", "B">>
    ELSE IF sz >= KB THEN Fixed2(sz, KB) \o <<" ", "K", "B">>
    ELSE Digits(sz) \o <<" ", "b", "y", "t", "e", "s">>

\* the first program of part_001: std::to_string(size / unit)
human_readable_size_trunc(sz) ==
    IF sz >= GB THEN Digits(sz \div GB) \o <<" ", "G", "B">>
    ELSE IF sz >= MB THEN Digits(sz \div MB) \o <<" ", "M", "B">>
    ELSE IF sz >= KB THEN Digits(sz \div KB) \o <<" ", "K", "B">>
    ELSE Digits(sz) \o <<" ", "b", "y", "t", "e", "s">>

\* Formatter inputs: every n within FmtSpread of a sample point.  The points
\* are the thresholds, exact ties of the two-decimal rounding (1.125 and
\* 1.375 units), a run of nines (1023.999 units) and the largest integers
\* TLC represents.
FmtPoints ==
    {FmtSpread, KB, KB + 128, KB + 384, 10 * KB, MB - 6, MB, MB + MB \div 8,
     500 * MB, GB - 5243, GB, GB + GB \div 8, GB + 3 * (GB \div 8),
     2147483647 - FmtSpread}

FmtInputs ==
    {p + d : p \in FmtPoints, d \in (0 - FmtSpread)..FmtSpread}

InitFmtVars ==
    /\ fmtVariant = "fixed"
    /\ fmtIn = 0
    /\ fmtOut = <<>>

\* one call of human_readable_size
Format ==
    /\ fmtOut = <<>>
    /\ fmtOut' = IF fmtVariant = "fixed" THEN human_readable_size(fmtIn)
                 ELSE human_readable_size_trunc(fmtIn)
    /\ UNCHANGED <<fmtVariant, fmtIn>>
    /\ UNCHANGED driverVars

----------------------------------------------------------------------------
(* The file system, as the iterators show it *)

FieldWidth == 30    \* std::setw(30) of the name
ValueWidth == 10    \* std::setw(10) of the size

NameShort  == <<"a">>
NameHidden == <<".", "h">>
NameLong   == Rep("b", FieldWidth + 1)
Names      == {NameShort, NameHidden, NameLong}

\* an immediate entry of the target: its name and its kind, "dirlink" being a
\* symlink to a directory
TopEntries == [name : Names, kind : {"dir", "file", "dirlink"}]

\* directory_entry::is_directory(): the type after following symlinks
is_directory(e) == e.kind \in {"dir", "dirlink"}

FileSizes == {100, 200, 300}
DirBlock  == 4 * KB \* st_size of a directory

\* An entry of the recursive walk: its own kind, what a symlink resolves to,
\* st_size as stat (following symlinks) reports it, and the depth it is at.
WalkKinds ==
    [kind : {"file"}, target : {"none"}, size : FileSizes]
    \cup {[kind |-> "dir", target |-> "none", size |-> DirBlock],
          [kind |-> "symlink", target |-> "file", size |-> 200],
          [kind |-> "symlink", target |-> "dir", size |-> DirBlock],
          [kind |-> "symlink", target |-> "dangling", size |-> 0],
          [kind |-> "fifo", target |-> "none", size |-> 0]}

AtDepth(k, d) ==
    [kind |-> k.kind, target |-> k.target, size |-> k.size, depth |-> d]

\* status(): the type after following symlinks
status(e) ==
    IF e.kind = "symlink"
    THEN (IF e.target = "file" THEN "regular"
          ELSE IF e.target = "dir" THEN "directory" ELSE "not_found")
    ELSE IF e.kind = "file" THEN "regular"
    ELSE IF e.kind = "dir" THEN "directory" ELSE "fifo"

\* faulty variant: the type of the entry itself (symlink_status)
is_regular_file_nofollow(e) == e.kind = "file"

\* fs::is_regular_file(entry) / fs::is_regular_file(entry.status())
is_regular_file(e) == status(e) = "regular"

\* fs::file_size(entry): st_size of what the path resolves to
file_size(e) == e.size

\* faulty variant: the is_regular_file test left out
LoopBodyUnchecked(sz, e) == sz + file_size(e)

\* the body of calculate_directory_size's loop
LoopBody(sz, e) == IF is_regular_file(e) THEN sz + file_size(e) ELSE sz

\* recursive_directory_iterator descends into directories, not into symlinks
\* to directories (directory_options::none)
Descends(e) == e.kind = "dir"

----------------------------------------------------------------------------
(* Variants *)

Variants == {"optional", "levels", "cwd"}

HasArgs(v) == v \in {"optional", "levels"}
ReturnsOptional(v) == v = "optional"
Level(v, l) == IF v = "cwd" THEN "NONE" ELSE l

\* faulty variant: the argument count is not checked
ArgsMissingNever(n) == n < 1

\* argc < 3
ArgsMissing(n) == n < 3

\* faulty variant: opened without std::ios::app, the file is truncated
OpenTruncating(content) == <<>>

\* std::ofstream(path, std::ios::app) on an openable path: the content stays
OpenAppend(content) == content

\* log_message / log_file << ... << std::endl: one record appended
log_message(log, level, msg, path) ==
    Append(log, [level |-> level, msg |-> msg, path |-> path])

\* faulty variant: a field of exactly w columns, longer text cut
SetwLeftTruncating(w, s) ==
    IF Len(s) >= w THEN SubSeq(s, 1, w) ELSE s \o Rep(" ", w - Len(s))

\* std::left << std::setw(w) << s: padded on the right to w, never cut
SetwLeft(w, s) == s \o Rep(" ", Max(0, w - Len(s)))

SizeLabel == <<" ", "S", "i", "z", "e", ":", " ">>
ErrorText == <<"E", "r", "r", "o", "r">>

\* the report line of main
ReportLine(name, text) ==
    SetwLeft(FieldWidth, name) \o SizeLabel \o SetwLeft(ValueWidth, text)

\* faulty variant: the is_directory() test left out
QualifiesAnyKind(e) == Head(e.name) # "."

\* entry.is_directory() && entry.path().filename().string()[0] != '.'
Qualifies(e) == is_directory(e) /\ Head(e.name) # "."

\* faulty variant: the catch clauses fall through to  return size;
WalkResultAlwaysSize(v, sz, failed) == [failed |-> FALSE, size |-> sz]

\* what calculate_directory_size hands back: std::nullopt from the catch
\* clauses of part_000, the (partial) sum everywhere else
WalkResult(v, sz, failed) ==
    IF failed /\ ReturnsOptional(v) THEN [failed |-> TRUE, size |-> 0]
    ELSE [failed |-> FALSE, size |-> sz]

ResultText(r) == IF r.failed THEN ErrorText ELSE human_readable_size(r.size)

----------------------------------------------------------------------------
(* main and calculate_directory_size *)

Init ==
    /\ variant \in Variants
    /\ argc \in (IF HasArgs(variant) THEN 1..3 ELSE {1})
    /\ pc = (IF HasArgs(variant) THEN "start" ELSE "open")
    /\ exitCode = -1
    /\ fatal = "none"
    /\ logFile = <<>>
    /\ logExists = FALSE
    /\ logStart = 0
    /\ out = <<>>
    /\ err = <<>>
    /\ listed = <<>>
    /\ listFailed = FALSE
    /\ cur = <<>>
    /\ size = 0
    /\ seen = EmptyBag
    /\ depth = 0
    /\ walks = <<>>
    /\ runs = 1
    /\ yielded = 0
    /\ InitFmtVars

\* return code;
Exit(code, why) ==
    /\ pc' = "exited"
    /\ exitCode' = code
    /\ fatal' = why

\* if (argc < 3) { std::cerr << "Usage: ..."; return 1; }
CheckArgs ==
    /\ pc = "start"
    /\ IF ArgsMissing(argc)
       THEN /\ err' = Append(err, "usage")
            /\ Exit(1, "args")
       ELSE /\ pc' = "open"
            /\ UNCHANGED <<err, exitCode, fatal>>
    /\ UNCHANGED <<variant, argc, logFile, logExists, logStart, out, listed,
                   listFailed, cur, size, seen, depth, walks, runs, yielded>>
    /\ UNCHANGED fmtVars

\* std::ofstream log_file(path, std::ios::app); if (!log_file.is_open()) ...
OpenLog ==
    /\ pc = "open"
    /\ \E ok \in BOOLEAN :
        IF ok
        THEN /\ logFile' = OpenAppend(logFile)
             /\ logExists' = TRUE
             /\ pc' = (IF HasArgs(variant) THEN "validate" ELSE "resolve")
             /\ UNCHANGED <<err, exitCode, fatal>>
        ELSE /\ err' = Append(err, "logopen")
             /\ Exit(1, "log")
             /\ UNCHANGED <<logFile, logExists>>
    /\ UNCHANGED <<variant, argc, logStart, out, listed, listFailed, cur,
                   size, seen, depth, walks, runs, yielded>>
    /\ UNCHANGED fmtVars

\* main.cc: fs::path current_path = fs::current_path();  It is outside the
\* try block: a filesystem_error (the working directory was removed, or is
\* not searchable) reaches std::terminate.
ResolveCwd ==
    /\ pc = "resolve"
    /\ \E ok \in BOOLEAN :
        pc' = (IF ok THEN "list" ELSE "aborted")
    /\ UNCHANGED <<variant, argc, exitCode, fatal, logFile, logExists,
                   logStart, out, err, listed, listFailed, cur, size, seen,
                   depth, walks, runs, yielded>>
    /\ UNCHANGED fmtVars

\* if (!fs::exists(directory_path) || !fs::is_directory(directory_path))
\* Both calls are the throwing overloads and are outside the try block:
\* status() failing with anything but "not found" (EACCES on a parent,
\* ELOOP, ENAMETOOLONG) throws filesystem_error, which reaches std::terminate.
Validate ==
    /\ pc = "validate"
    /\ \E st \in {"dir", "file", "missing", "error"} :
        IF st = "error"
        THEN /\ pc' = "aborted"
             /\ UNCHANGED <<logFile, exitCode, fatal>>
        ELSE IF st = "dir"
        THEN /\ pc' = "list"
             /\ UNCHANGED <<logFile, exitCode, fatal>>
        ELSE /\ logFile' = log_message(logFile, Level(variant, "ERROR"),
                                       "Invalid directory path", <<>>)
             /\ Exit(1, "target")
    /\ UNCHANGED <<variant, argc, logExists, logStart, out, err, listed,
                   listFailed, cur, size, seen, depth, walks, runs, yielded>>
    /\ UNCHANGED fmtVars

ListedNames == {listed[i].name : i \in 1..Len(listed)}

\* one iteration of  for (const auto& entry : fs::directory_iterator(...))
\* up to the call of calculate_directory_size
ListNext(limit) ==
    /\ pc = "list"
    /\ yielded < limit
    /\ \E e \in TopEntries :
        /\ e.name \notin ListedNames
        /\ listed' = Append(listed, e)
        /\ IF Qualifies(e)
           THEN /\ logFile' = log_message(logFile, Level(variant, "INFO"),
                                          "Processing directory", e.name)
                /\ cur' = e.name
                /\ size' = 0
                /\ seen' = EmptyBag
                /\ depth' = 0
                /\ pc' = "walk"
           ELSE UNCHANGED <<logFile, cur, size, seen, depth, pc>>
    /\ yielded' = yielded + 1
    /\ UNCHANGED <<variant, argc, exitCode, fatal, logExists, logStart, out,
                   err, listFailed, walks, runs>>
    /\ UNCHANGED fmtVars

\* the iterator reaches end(): main falls through to  return 0;
ListEnd ==
    /\ pc = "list"
    /\ Exit(0, "none")
    /\ UNCHANGED <<variant, argc, logFile, logExists, logStart, out, err,
                   listed, listFailed, cur, size, seen, depth, walks, runs,
                   yielded>>
    /\ UNCHANGED fmtVars

\* faulty variant: the exception is swallowed without a record
OnListErrorSilent(log, v) == log

\* main's catch clauses: one record, without a directory
OnListError(log, v) ==
    log_message(log, Level(v, "ERROR"), "Filesystem error", <<>>)

\* the directory_iterator (its construction or its increment) throws
ListError ==
    /\ pc = "list"
    /\ logFile' = OnListError(logFile, variant)
    /\ listFailed' = TRUE
    /\ Exit(0, "none")
    /\ UNCHANGED <<variant, argc, logExists, logStart, out, err, listed, cur,
                   size, seen, depth, walks, runs, yielded>>
    /\ UNCHANGED fmtVars

\* one iteration of calculate_directory_size's loop
WalkEntry(limit) ==
    /\ pc = "walk"
    /\ yielded < limit
    /\ \E k \in WalkKinds :
        LET e == AtDepth(k, depth) IN
        /\ seen' = seen (+) SetToBag({e})
        /\ size' = LoopBody(size, e)
        /\ depth' = (IF Descends(e) THEN depth + 1 ELSE depth)
    /\ yielded' = yielded + 1
    /\ UNCHANGED <<variant, argc, pc, exitCode, fatal, logFile, logExists,
                   logStart, out, err, listed, listFailed, cur, walks, runs>>
    /\ UNCHANGED fmtVars

\* the recursive iterator finishes a subdirectory and pops back to its parent
WalkLeave ==
    /\ pc = "walk"
    /\ depth > 0
    /\ depth' = depth - 1
    /\ UNCHANGED <<variant, argc, pc, exitCode, fatal, logFile, logExists,
                   logStart, out, err, listed, listFailed, cur, size, seen,
                   walks, runs, yielded>>
    /\ UNCHANGED fmtVars

\* calculate_directory_size returns and main prints the report line
Report(threw) ==
    LET r == WalkResult(variant, size, threw) IN
    /\ walks' = Append(walks, [name |-> cur, threw |-> threw,
                               failed |-> r.failed, size |-> r.size])
    /\ out' = Append(out, ReportLine(cur, ResultText(r)))
    /\ cur' = <<>>
    /\ pc' = "list"

\* the recursive iterator reaches end(): return size;
WalkEnd ==
    /\ pc = "walk"
    /\ depth = 0
    /\ Report(FALSE)
    /\ UNCHANGED <<variant, argc, exitCode, fatal, logFile, logExists,
                   logStart, err, listed, listFailed, size, seen, depth, runs,
                   yielded>>
    /\ UNCHANGED fmtVars

\* Something in the try block throws filesystem_error: the iterator's
\* construction or increment (a directory that cannot be opened or read),
\* is_regular_file (status fails) or file_size (the file vanished after its
\* status was read).  The catch clause logs it with the directory.
WalkThrow ==
    /\ pc = "walk"
    /\ logFile' = log_message(logFile, Level(variant, "ERROR"),
                              "Filesystem error in directory", cur)
    /\ Report(TRUE)
    /\ UNCHANGED <<variant, argc, exitCode, fatal, logExists, logStart, err,
                   listed, listFailed, size, seen, depth, runs, yielded>>
    /\ UNCHANGED fmtVars

\* the program is started again, on the same log file
NewRun ==
    /\ pc \in {"exited", "aborted"}
    /\ runs < MaxRuns
    /\ runs' = runs + 1
    /\ argc' \in (IF HasArgs(variant) THEN 1..3 ELSE {1})
    /\ pc' = (IF HasArgs(variant) THEN "start" ELSE "open")
    /\ exitCode' = -1
    /\ fatal' = "none"
    /\ logStart' = Len(logFile)
    /\ out' = <<>>
    /\ err' = <<>>
    /\ listed' = <<>>
    /\ listFailed' = FALSE
    /\ cur' = <<>>
    /\ size' = 0
    /\ seen' = EmptyBag
    /\ depth' = 0
    /\ walks' = <<>>
    /\ UNCHANGED <<variant, logFile, logExists, yielded>>
    /\ UNCHANGED fmtVars

\* the steps of one process, the iterators yielding at most `limit` entries
Run(limit) ==
    \/ CheckArgs
    \/ OpenLog
    \/ ResolveCwd
    \/ Validate
    \/ ListNext(limit)
    \/ ListEnd
    \/ ListError
    \/ WalkEntry(limit)
    \/ WalkLeave
    \/ WalkEnd
    \/ WalkThrow

Next == Run(MaxEntries)

\* one process, from its start to its end
Spec == Init /\ [][Next]_vars

NextRuns == Run(MaxRunEntries) \/ NewRun

\* successive processes appending to the same log file
SpecRuns == Init /\ [][NextRuns]_vars

\* the formatter alone: nothing of main runs, the input is any of FmtInputs
\* and the formatter either policy
InitFmt ==
    /\ variant = "optional"
    /\ argc = 3
    /\ pc = "start"
    /\ exitCode = -1
    /\ fatal = "none"
    /\ logFile = <<>>
    /\ logExists = FALSE
    /\ logStart = 0
    /\ out = <<>>
    /\ err = <<>>
    /\ listed = <<>>
    /\ listFailed = FALSE
    /\ cur = <<>>
    /\ size = 0
    /\ seen = EmptyBag
    /\ depth = 0
    /\ walks = <<>>
    /\ runs = 1
    /\ yielded = 0
    /\ fmtVariant \in {"fixed", "trunc"}
    /\ fmtIn \in FmtInputs
    /\ fmtOut = <<>>

NextFmt == Format

SpecFmt == InitFmt /\ [][NextFmt]_vars

----------------------------------------------------------------------------
(* Vocabulary of the properties *)

IsPrefix(a, b) == Len(a) <= Len(b) /\ SubSeq(b, 1, Len(a)) = a

RECURSIVE RStrip(_)
RStrip(s) ==
    IF s # <<>> /\ s[Len(s)] = " " THEN RStrip(SubSeq(s, 1, Len(s) - 1))
    ELSE s

IndexOf(s, c) ==
    IF \E i \in 1..Len(s) : s[i] = c
    THEN CHOOSE i \in 1..Len(s) : s[i] = c /\ \A j \in 1..(i - 1) : s[j] # c
    ELSE 0

IsDigits(s) ==
    s # <<>> /\ \A i \in 1..Len(s) : \E d \in 1..10 : DigitChar[d] = s[i]

RECURSIVE ParseNat(_)
ParseNat(s) ==
    IF s = <<>> THEN 0
    ELSE ParseNat(SubSeq(s, 1, Len(s) - 1)) * 10
         + (CHOOSE d \in 0..9 : DigitChar[d + 1] = s[Len(s)])

RECURSIVE BagSum(_, _)
\* sum of weight[e] over the bag B, copies counted
BagSum(B, weight) ==
    IF DOMAIN B = {} THEN 0
    ELSE LET e == CHOOSE x \in DOMAIN B : TRUE
             rest == [x \in DOMAIN B \ {e} |-> B[x]]
         IN  B[e] * weight[e] + BagSum(rest, weight)

\* the records this process appended to the log
RunLog == SubSeq(logFile, logStart + 1, Len(logFile))

\* the listed entries that are directories (or resolve to one) and are not
\* hidden, in listing order
Reportable ==
    SelectSeq(listed,
              LAMBDA e : e.kind \in {"dir", "dirlink"} /\ e.name[1] # ".")

\* the value field of report line i: what follows " Size: ", padding dropped
ValueOf(i) ==
    LET w == Max(FieldWidth, Len(walks[i].name)) + Len(SizeLabel)
    IN  RStrip(SubSeq(out[i], w + 1, Len(out[i])))

\* a regular file that is not reached through a symlink
PlainRegular(e) == e.kind = "file"

\* an entry whose type is regular file once symlinks are followed
FollowedRegular(e) ==
    e.kind = "file" \/ (e.kind = "symlink" /\ e.target = "file")

WalkEntries == {AtDepth(k, d) : k \in WalkKinds, d \in 0..MaxEntries}

\* the last calculate_directory_size call of this run ended without error
LastWalkOk ==
    pc \in {"list", "exited"} /\ walks # <<>> /\ ~walks[Len(walks)].threw

----------------------------------------------------------------------------
(* C1 *)

----------------------------------------------------------------------------
(* C2 *)

\* C2: every run ends with a normal exit, with code 1 exactly when a fatal
\* precondition failed and 0 otherwise; no failure of the file system ends
\* the process in any other way.
C2_AlwaysNormalExit ==
    /\ pc # "aborted"
    /\ pc = "exited" =>
        /\ exitCode \in {0, 1}
        /\ exitCode = 1 <=> fatal \in {"args", "log", "target"}

----------------------------------------------------------------------------
(* C3 *)

\* C3 as claimed: a traversal that ends without error returns the sum of the
\* sizes of the regular files found, a regular file being an entry that is
\* neither a directory nor a symlink nor special.
C3_SumOfPlainFiles ==
    LastWalkOk =>
        walks[Len(walks)].size =
            BagSum(seen, [e \in WalkEntries |->
                            IF PlainRegular(e) THEN e.size ELSE 0])

\* C3 amended: a traversal that ends without error returns the sum, over the
\* entries found at any depth whose type after following symlinks is regular
\* file, of the size stat reports (for a symlink, its target's), each entry
\* counted once; directories and the other entries add nothing.
C3_SumOfFollowedFiles ==
    LastWalkOk =>
        /\ ~walks[Len(walks)].failed
        /\ walks[Len(walks)].size =
            BagSum(seen, [e \in WalkEntries |->
                            IF FollowedRegular(e) THEN e.size ELSE 0])

C3_Witness ==
    /\ LastWalkOk
    /\ walks[Len(walks)].size = 600
    /\ \A e \in DOMAIN seen : e.kind \in {"file", "dir"}
    /\ \E a, b, c \in DOMAIN seen :
        /\ a.kind = "file" /\ a.size = 100
        /\ b.kind = "file" /\ b.size = 200
        /\ c.kind = "file" /\ c.size = 300
        /\ a.depth # c.depth

----------------------------------------------------------------------------
(* C4 *)

\* C4: when the top-level listing completes, standard output holds exactly one
\* report line per listed entry that is a directory and not hidden, in listing
\* order, calculate_directory_size ran once for each of them and for nothing
\* else, and no log record names any other entry.
C4_ExactlyTheReportable ==
    (pc = "exited" /\ fatal = "none" /\ ~listFailed) =>
        /\ Len(out) = Len(Reportable)
        /\ Len(walks) = Len(Reportable)
        /\ \A j \in 1..Len(Reportable) :
            /\ walks[j].name = Reportable[j].name
            /\ IsPrefix(Reportable[j].name, out[j])
        /\ \A k \in 1..Len(RunLog) :
            RunLog[k].path # <<>> =>
                \E j \in 1..Len(Reportable) :
                    RunLog[k].path = Reportable[j].name
        /\ Cardinality({k \in 1..Len(RunLog) :
                RunLog[k].msg = "Processing directory"}) = Len(Reportable)

C4_Witness ==
    /\ pc = "exited" /\ fatal = "none" /\ ~listFailed
    /\ Len(listed) = 3
    /\ \E i \in 1..3 : listed[i].kind = "dir" /\ listed[i].name = NameHidden
    /\ \E i \in 1..3 : listed[i].kind = "file" /\ listed[i].name # NameHidden
    /\ \E i \in 1..3 : listed[i].kind = "dir" /\ listed[i].name # NameHidden
    /\ Len(out) = 1
    /\ size > 0

----------------------------------------------------------------------------
(* C5 *)

\* C5 as claimed: when the top-level listing fails, one ERROR record is
\* logged, the run exits with code 0, and the entries seen before the failure
\* are not reported.
C5_SeenEntriesUnreported ==
    (HasArgs(variant) /\ listFailed) =>
        /\ pc = "exited"
        /\ exitCode = 0
        /\ Cardinality({k \in 1..Len(RunLog) :
                RunLog[k].level = "ERROR" /\ RunLog[k].path = <<>>}) = 1
        /\ out = <<>>

\* C5 amended: when the top-level listing fails, the loop ends, exactly one
\* ERROR record (the last of the run, naming no directory) is logged for it
\* and the run exits with code 0; the report lines already printed for the
\* reportable entries seen before the failure stay on standard output, and
\* nothing is reported after it.
C5_ListingFailureDegrades ==
    (HasArgs(variant) /\ listFailed) =>
        /\ pc = "exited"
        /\ exitCode = 0
        /\ fatal = "none"
        /\ Cardinality({k \in 1..Len(RunLog) :
                RunLog[k].level = "ERROR" /\ RunLog[k].path = <<>>}) = 1
        /\ RunLog[Len(RunLog)].path = <<>>
        /\ RunLog[Len(RunLog)].level = "ERROR"
        /\ Len(out) = Len(Reportable)
        /\ \A j \in 1..Len(out) : IsPrefix(Reportable[j].name, out[j])

C5_Witness ==
    /\ HasArgs(variant)
    /\ listFailed
    /\ pc = "exited"
    /\ Len(out) >= 1
    /\ Len(listed) >= 2

----------------------------------------------------------------------------
(* C6 *)

UnitOf(n) == IF n >= GB THEN GB ELSE IF n >= MB THEN MB ELSE KB

UnitName(n) ==
    IF n >= GB THEN <<"G", "B">>
    ELSE IF n >= MB THEN <<"M", "B">> ELSE <<"K", "B">>

\* | h * (unit / 100) - n | <= unit / 200: h hundredths of the unit are within
\* half a hundredth of n.  With d = h - 100 * (n / unit) and n % unit split at
\* KB, the difference is KB * (d * (unit / KB) - 100 * hi) - 100 * lo.
WithinHalfHundredth(h, n, unit) ==
    LET d  == h - 100 * (n \div unit)
        r  == n % unit
        hi == r \div KB
        lo == r % KB
        us == unit \div KB
        D  == d * us - 100 * hi
        x  == 200 * lo
    IN  /\ d \in 0..100
        /\ 2 * D - us <= x \div KB
        /\ 2 * D + us >= (x + KB - 1) \div KB

\* "<digits>.<two digits> <unit>", the value within rounding tolerance of n
TwoDecimalShape(n, s) ==
    LET sp   == IndexOf(s, " ")
        v    == SubSeq(s, 1, sp - 1)
        u    == SubSeq(s, sp + 1, Len(s))
        dot  == IndexOf(v, ".")
        ip   == SubSeq(v, 1, dot - 1)
        fp   == SubSeq(v, dot + 1, Len(v))
    IN  /\ sp > 0
        /\ IF n < KB
           THEN /\ u = <<"b", "y", "t", "e", "s">>
                /\ IsDigits(v)
                /\ ParseNat(v) = n
           ELSE /\ u = UnitName(n)
                /\ dot > 0
                /\ IsDigits(ip)
                /\ Len(fp) = 2
                /\ IsDigits(fp)
                /\ WithinHalfHundredth(100 * ParseNat(ip) + ParseNat(fp), n,
                                       UnitOf(n))

\* "<digits> <unit>", the value the quotient rounded down
TruncatedShape(n, s) ==
    LET sp == IndexOf(s, " ")
        v  == SubSeq(s, 1, sp - 1)
        u  == SubSeq(s, sp + 1, Len(s))
    IN  /\ sp > 0
        /\ IsDigits(v)
        /\ IF n < KB
           THEN u = <<"b", "y", "t", "e", "s">> /\ ParseNat(v) = n
           ELSE u = UnitName(n) /\ ParseNat(v) = n \div UnitOf(n)

\* C6 as claimed: every human_readable_size picks the unit by the inclusive
\* thresholds, prints N bytes below 1024 and otherwise a value with exactly two
\* fractional digits that is within half a hundredth of a unit of n.
C6_TwoDecimalsEverywhere ==
    fmtOut # <<>> => TwoDecimalShape(fmtIn, fmtOut)

\* C6 amended: the human_readable_size of part_000, of main.cc and of the
\* second program of part_001 behaves as claimed (1024 gives "1.00 KB"); the
\* one of the first program of part_001 picks the unit by the same thresholds
\* and prints the quotient rounded down, without fractional digits.
C6_ShapeByVariant ==
    fmtOut # <<>> =>
        IF fmtVariant = "fixed" THEN TwoDecimalShape(fmtIn, fmtOut)
        ELSE TruncatedShape(fmtIn, fmtOut)

C6_Witness ==
    /\ fmtVariant = "fixed"
    /\ fmtIn = KB
    /\ fmtOut = <<"1", ".", "0", "0", " ", "K", "B">>

----------------------------------------------------------------------------
(* C7 *)

\* C7 as claimed: an entry that is a directory, a symlink or anything else
\* that is not itself a regular file adds nothing to the total.
C7_OnlyPlainFilesCount ==
    [][\A e \in WalkEntries :
          (seen' = seen (+) SetToBag({e}) /\ ~PlainRegular(e))
              => size' = size]_vars

\* C7 amended: an entry whose type after following symlinks is not regular
\* file (a directory, a symlink to a directory, a dangling symlink, a special
\* file) adds nothing to the total; a symlink to a regular file adds the size
\* of its target.
C7_OnlyFollowedFilesCount ==
    [][\A e \in WalkEntries :
          seen' = seen (+) SetToBag({e}) =>
              /\ ~FollowedRegular(e) => size' = size
              /\ (e.kind = "symlink" /\ e.target = "file")
                     => size' = size + e.size]_vars

C7_Witness ==
    /\ pc = "walk"
    /\ \E e \in DOMAIN seen : e.kind = "symlink" /\ e.target = "file"
    /\ \E e \in DOMAIN seen : e.kind = "symlink" /\ e.target = "dir"
    /\ \E e \in DOMAIN seen : e.kind = "dir"
    /\ \A e \in DOMAIN seen : e.kind # "file"
    /\ size = 200

----------------------------------------------------------------------------
(* C8 *)

\* C8: no step of any run truncates or rewrites the log: its content before a
\* step is a prefix of its content after it, so the records of successive runs
\* follow one another in run order.
C8_LogAppendOnly ==
    [][IsPrefix(logFile, logFile')]_vars

C8_Witness ==
    /\ runs = 2
    /\ logStart > 0
    /\ Len(logFile) > logStart
    /\ pc = "exited"

----------------------------------------------------------------------------
(* C9 *)

\* C9: in the programs that take arguments, a run started with fewer than
\* three arguments prints the usage line on standard error and exits with
\* code 1 in its first step, which neither creates nor writes the log and
\* prints no report line.
C9_UsageBeforeLog ==
    [][(HasArgs(variant) /\ pc = "start" /\ argc < 3) =>
          /\ pc' = "exited"
          /\ exitCode' = 1
          /\ err' = <<"usage">>
          /\ out' = <<>>
          /\ logFile' = logFile
          /\ logExists' = logExists]_vars

C9_Witness ==
    /\ HasArgs(variant)
    /\ argc = 1
    /\ pc = "exited"
    /\ exitCode = 1
    /\ err = <<"usage">>
    /\ ~logExists

----------------------------------------------------------------------------
(* C10 *)

\* C10 as claimed: in every report line the name fills exactly the first 30
\* columns, padded or cut, " Size: " starts at column 31 and the value field
\* that follows is at least 10 columns wide.
C10_NameFieldFixed ==
    \A i \in 1..Len(out) :
        LET n == walks[i].name IN
        /\ SubSeq(out[i], 1, FieldWidth) =
              (IF Len(n) >= FieldWidth THEN SubSeq(n, 1, FieldWidth)
               ELSE n \o Rep(" ", FieldWidth - Len(n)))
        /\ SubSeq(out[i], FieldWidth + 1, FieldWidth + Len(SizeLabel))
              = SizeLabel
        /\ Len(out[i]) - (FieldWidth + Len(SizeLabel)) >= ValueWidth

\* C10 amended: in every report line the name is printed whole and
\* left-aligned, padded on the right with spaces to 30 columns when it is
\* shorter and never cut when it is longer, so that " Size: " starts at column
\* max(30, length of the name) + 1; the size or Error follows at once, padded
\* on the right to at least 10 columns.
C10_NameFieldAtLeast ==
    \A i \in 1..Len(out) :
        LET n == walks[i].name
            w == Max(FieldWidth, Len(n))
            v == SubSeq(out[i], w + Len(SizeLabel) + 1, Len(out[i]))
        IN  /\ IsPrefix(n, out[i])
            /\ \A k \in (Len(n) + 1)..w : out[i][k] = " "
            /\ SubSeq(out[i], w + 1, w + Len(SizeLabel)) = SizeLabel
            /\ Len(v) >= ValueWidth
            /\ v[1] # " "
            /\ \A k \in (Len(RStrip(v)) + 1)..Len(v) : v[k] = " "
            /\ walks[i].failed <=> RStrip(v) = ErrorText

C10_Witness ==
    /\ Len(out) = 2
    /\ walks[1].name = NameLong
    /\ walks[2].name = NameShort
    /\ Len(out[1]) = Len(NameLong) + Len(SizeLabel) + ValueWidth
    /\ Len(out[2]) = FieldWidth + Len(SizeLabel) + ValueWidth

====
